---- MODULE Spec2Model ----
(***************************************************************************)
(* A model of sih2025_scraper.py: the block locator (extract_blocks and    *)
(* the flat-text fallback of scrape_sih_ps), the field segmenter           *)
(* (split_into_labeled_chunks), the footer parser (parse_footer_line),     *)
(* the record assembler (make_record) and the deduplication loop.          *)
(*                                                                         *)
(* Text is modelled character by character on TLA+ strings.  Offsets are   *)
(* 0-based, as in Python.  An Optional[str] is <<>> (None) or <<s>>.       *)
(***************************************************************************)
EXTENDS Integers, Sequences, FiniteSets, TLC

VARIABLES
    pc,              \* position in scrape_sih_ps (or in the function under study)
    doc,             \* the parsed document tree (soup)
    located,         \* what extract_blocks returned
    full,            \* the flat page text of the fallback (local "full")
    blocks,          \* the block list (local "blocks")
    bi,              \* number of blocks the assembly loop has consumed
    raised,          \* indices of the blocks whose assembly raised
    raw_text,        \* make_record's local raw_text of the last call
    labeled,         \* make_record's local labeled of the last call
    footer,          \* make_record's local footer of the last call
    rec,             \* what make_record returned in the last call
    records,         \* the assembled, non-empty records (local "records")
    ri,              \* number of records the deduplication loop has consumed
    seen_keys,       \* local seen_keys
    unique_records   \* local unique_records, the value returned

vars == <<pc, doc, located, full, blocks, bi, raised, raw_text, labeled, footer,
          rec, records, ri, seen_keys, unique_records>>

-----------------------------------------------------------------------------
(* Optional[str] *)

None == <<>>

Some(s) == <<s>>

\* Python truthiness of an Optional[str]: neither None nor "".
Truthy(o) == o # None /\ o[1] # ""

\* (o or "")
OrEmpty(o) == IF Truthy(o) THEN o[1] ELSE ""

\* dict.get(k)
Get(d, k) == IF k \in DOMAIN d THEN Some(d[k]) ELSE None

EmptyDict == [k \in {} |-> ""]

-----------------------------------------------------------------------------
(* Characters and strings *)

At(s, i) == SubSeq(s, i + 1, i + 1)

\* s[a:b] for 0 <= a, b <= len(s)
Slice(s, a, b) == SubSeq(s, a + 1, b)

LowerMap ==
    [c \in {"A","B","C","D","E","F","G","H","I","J","K","L","M",
            "N","O","P","Q","R","S","T","U","V","W","X","Y","Z"} |->
       CASE c = "A" -> "a" [] c = "B" -> "b" [] c = "C" -> "c" [] c = "D" -> "d"
         [] c = "E" -> "e" [] c = "F" -> "f" [] c = "G" -> "g" [] c = "H" -> "h"
         [] c = "I" -> "i" [] c = "J" -> "j" [] c = "K" -> "k" [] c = "L" -> "l"
         [] c = "M" -> "m" [] c = "N" -> "n" [] c = "O" -> "o" [] c = "P" -> "p"
         [] c = "Q" -> "q" [] c = "R" -> "r" [] c = "S" -> "s" [] c = "T" -> "t"
         [] c = "U" -> "u" [] c = "V" -> "v" [] c = "W" -> "w" [] c = "X" -> "x"
         [] c = "Y" -> "y" [] c = "Z" -> "z"]

UpperChars == DOMAIN LowerMap

LowerChars == {LowerMap[c] : c \in UpperChars}

Digits == {"0","1","2","3","4","5","6","7","8","9"}

\* \w of the regular expressions
WordChars == UpperChars \cup LowerChars \cup Digits \cup {"_"}

\* \s of the regular expressions and the characters str.strip() removes
Whitespace == {" ", "\t", "\n", "\r"}

\* [ \t] of cleaned_text
Blank == {" ", "\t"}

LowerChar(c) == IF c \in UpperChars THEN LowerMap[c] ELSE c

\* re.IGNORECASE comparison of pattern text pat with s[p:p+len(pat)]
MatchesAtIgnoreCase(s, p, pat) ==
    /\ p + Len(pat) <= Len(s)
    /\ \A i \in 0..(Len(pat) - 1) : LowerChar(At(s, p + i)) = LowerChar(At(pat, i))

RECURSIVE SpanEnd(_, _, _)
\* The end of the longest run of characters of set cs starting at offset p.
SpanEnd(s, p, cs) ==
    IF p < Len(s) /\ At(s, p) \in cs THEN SpanEnd(s, p + 1, cs) ELSE p

RECURSIVE SpanEndNot(_, _, _)
\* The end of the longest run of characters outside set cs starting at offset p.
SpanEndNot(s, p, cs) ==
    IF p < Len(s) /\ At(s, p) \notin cs THEN SpanEndNot(s, p + 1, cs) ELSE p

RECURSIVE SpanStart(_, _, _)
\* The start of the longest run of characters of set cs ending at offset q.
SpanStart(s, q, cs) ==
    IF q > 0 /\ At(s, q - 1) \in cs THEN SpanStart(s, q - 1, cs) ELSE q

\* str.find(ch, start): the least offset >= start holding ch, or -1
Find(s, ch, start) ==
    LET q == SpanEndNot(s, start, {ch})
    IN  IF q < Len(s) THEN q ELSE -1

\* str.strip(): leading and trailing whitespace removed
Strip(s) ==
    LET a == SpanEnd(s, 0, Whitespace)
    IN  IF a = Len(s) THEN "" ELSE Slice(s, a, SpanStart(s, Len(s), Whitespace))

RECURSIVE SplitNewline(_)
\* str.split("\n")
SplitNewline(s) ==
    LET p == Find(s, "\n", 0)
    IN  IF p = -1 THEN <<s>>
        ELSE <<Slice(s, 0, p)>> \o SplitNewline(Slice(s, p + 1, Len(s)))

RECURSIVE JoinNewline(_)
\* "\n".join(lines)
JoinNewline(lines) ==
    IF lines = <<>> THEN ""
    ELSE IF Len(lines) = 1 THEN lines[1]
    ELSE lines[1] \o "\n" \o JoinNewline(Tail(lines))

RECURSIVE CollapseBlanks(_)
\* re.sub(r"[ \t]+", " ", s)
CollapseBlanks(s) ==
    IF s = "" THEN ""
    ELSE IF At(s, 0) \in Blank
         THEN " " \o CollapseBlanks(Slice(s, SpanEnd(s, 0, Blank), Len(s)))
         ELSE LET q == SpanEndNot(s, 0, Blank)
              IN  Slice(s, 0, q) \o CollapseBlanks(Slice(s, q, Len(s)))

-----------------------------------------------------------------------------
(* The document tree.  Nodes 1..Len(d.parent) are numbered in document     *)
(* order; node 1 is the root (the BeautifulSoup object, itself a Tag, whose *)
(* parent is None, written 0).  d.tag[n] is isinstance(n, Tag): FALSE for a *)
(* NavigableString, whose text is d.string[n]; d.name[n] is a Tag's name.   *)

MARKER == "Problem Statement Details"

CLIMB_LEVELS == 5

Nodes(d) == 1..Len(d.parent)

RECURSIVE IsInside(_, _, _)
\* node m is node n or one of its descendants
IsInside(d, m, n) ==
    IF m = n THEN TRUE
    ELSE IF d.parent[m] = 0 THEN FALSE
    ELSE IsInside(d, d.parent[m], n)

\* The strings of the text nodes under node n, in document order.
StringsUnder(d, n) ==
    LET order == [i \in Nodes(d) |-> i]
        under == SelectSeq(order, LAMBDA m : ~d.tag[m] /\ IsInside(d, m, n))
    IN  [i \in 1..Len(under) |-> d.string[under[i]]]

\* The strings stripped, the empty ones left out, the rest joined by "\n".
JoinStripped(strings) ==
    JoinNewline(SelectSeq([i \in 1..Len(strings) |-> Strip(strings[i])],
                          LAMBDA t : t # ""))

\* Tag.get_text("\n", strip=True)
TagGetText(d, n) == JoinStripped(StringsUnder(d, n))

\* A block is a Tag of the tree or a Dummy holding its text.
TagBlock(n) == [kind |-> "Tag", node |-> n, text |-> ""]

Dummy(text) == [kind |-> "Dummy", node |-> 0, text |-> text]

\* block.get_text("\n", strip=True): Dummy.get_text ignores its arguments
get_text(d, b) == IF b.kind = "Tag" THEN TagGetText(d, b.node) ELSE b.text

cleaned_text(d, b) == Strip(CollapseBlanks(get_text(d, b)))

\* re.compile(r"Problem Statement Details", re.I).search(s)
MarkerSearch(s) ==
    \E p \in 0..(Len(s) - Len(MARKER)) : MatchesAtIgnoreCase(s, p, MARKER)

\* soup.find_all(text=...): the matching NavigableStrings, in document order
find_all_text(d) ==
    SelectSeq([i \in Nodes(d) |-> i],
              LAMBDA n : ~d.tag[n] /\ MarkerSearch(d.string[n]))

\* One round of the climbing loop.
ClimbOnce(d, container) ==
    IF d.tag[container] /\ d.parent[container] # 0
    THEN d.parent[container]
    ELSE container

RECURSIVE Climb(_, _, _)
Climb(d, container, rounds) ==
    IF rounds = 0 THEN container
    ELSE Climb(d, ClimbOnce(d, container), rounds - 1)

RECURSIVE Uniq(_, _)
\* The second loop of extract_blocks: first occurrences, by identity.
Uniq(cs, seen) ==
    IF cs = <<>> THEN <<>>
    ELSE IF Head(cs) \in seen THEN Uniq(Tail(cs), seen)
    ELSE <<Head(cs)>> \o Uniq(Tail(cs), seen \cup {Head(cs)})

extract_blocks(d) ==
    LET found      == find_all_text(d)
        climbed    == [i \in 1..Len(found) |-> Climb(d, found[i], CLIMB_LEVELS)]
        candidates == SelectSeq(climbed, LAMBDA c : d.tag[c])
    IN  Uniq(candidates, {})

\* \b at offset p of s
WordBoundary(s, p) ==
    LET before == p > 0 /\ At(s, p - 1) \in WordChars
        after  == p < Len(s) /\ At(s, p) \in WordChars
    IN  before # after

\* r"(?i)\bProblem Statement Details\b" matches at offset p
MarkerAt(s, p) ==
    /\ MatchesAtIgnoreCase(s, p, MARKER)
    /\ WordBoundary(s, p)
    /\ WordBoundary(s, p + Len(MARKER))

RECURSIVE SplitOnMarker(_, _, _)
\* re.split of s, scanning from offset from; the open segment began at segStart
SplitOnMarker(s, from, segStart) ==
    IF from + Len(MARKER) > Len(s) THEN <<Slice(s, segStart, Len(s))>>
    ELSE IF MarkerAt(s, from)
         THEN <<Slice(s, segStart, from)>>
                \o SplitOnMarker(s, from + Len(MARKER), from + Len(MARKER))
         ELSE SplitOnMarker(s, from + 1, segStart)

\* soup.body: the first element named body, or 0 for None
Body(d) ==
    IF \E n \in Nodes(d) : d.name[n] = "body"
    THEN CHOOSE n \in Nodes(d) :
            /\ d.name[n] = "body"
            /\ \A m \in 1..(n - 1) : d.name[m] # "body"
    ELSE 0

\* cleaned_text(soup.body or soup)
PageText(d) == cleaned_text(d, TagBlock(IF Body(d) # 0 THEN Body(d) ELSE 1))

\* The fallback of scrape_sih_ps: one Dummy per segment after the first.
\* The first segment wrapped as well: "for p in parts".
DummyBlocks_AllParts(parts) ==
    [i \in 1..Len(parts) |-> Dummy(MARKER \o "\n" \o parts[i])]

\* "for p in parts[1:]: blocks.append(Dummy(...))"
DummyBlocks(parts) ==
    [i \in 1..(Len(parts) - 1) |-> Dummy(MARKER \o "\n" \o parts[i + 1])]

FallbackBlocks(page) == DummyBlocks(SplitOnMarker(page, 0, 0))

-----------------------------------------------------------------------------
(* The field segmenter *)

DETAIL_KEYS ==
    << "Problem Statement ID", "Problem Statement Title", "Description",
       "Background", "Expected Solution", "Organization", "Department",
       "Category", "Theme", "Youtube Link", "Dataset Link", "Contact info" >>

\* [l.strip() for l in block_text.split("\n") if l.strip()], joined by "\n"
CompactText(block_text) == JoinStripped(SplitNewline(block_text))

RECURSIVE LineStartsFrom(_, _)
\* The offsets at or after p where "^" of a (?m) pattern matches: p itself
\* (a line start) and the offset after every later "\n".
LineStartsFrom(text, p) ==
    IF Find(text, "\n", p) = -1 THEN <<p>>
    ELSE <<p>> \o LineStartsFrom(text, Find(text, "\n", p) + 1)

\* rf"(?m)^{re.escape(key)}\s*$" with re.IGNORECASE matches at line start p
KeyLineAt(text, key, p) ==
    /\ MatchesAtIgnoreCase(text, p, key)
    /\ \E q \in (p + Len(key))..SpanEnd(text, p + Len(key), Whitespace) :
            q = Len(text) \/ At(text, q) = "\n"

RECURSIVE KeySearchAmong(_, _, _)
\* The first of the line starts where the pattern of key matches, or -1.
KeySearchAmong(text, key, starts) ==
    IF starts = <<>> THEN -1
    ELSE IF KeyLineAt(text, key, Head(starts)) THEN Head(starts)
    ELSE KeySearchAmong(text, key, Tail(starts))

\* re.search(...).start(), or -1 when there is no match
KeySearch(text, key) == KeySearchAmong(text, key, LineStartsFrom(text, 0))

RECURSIVE InsertByStart(_, _)
\* kp placed after the entries of the sorted list whose start is not larger
InsertByStart(sorted, kp) ==
    IF sorted = <<>> THEN <<kp>>
    ELSE IF kp.start < Head(sorted).start THEN <<kp>> \o sorted
    ELSE <<Head(sorted)>> \o InsertByStart(Tail(sorted), kp)

RECURSIVE SortByStart(_)
\* key_positions.sort(key=lambda x: x[1]): stable
SortByStart(kps) ==
    IF kps = <<>> THEN <<>>
    ELSE InsertByStart(SortByStart(SubSeq(kps, 1, Len(kps) - 1)), kps[Len(kps)])

\* The loop over DETAIL_KEYS, given the line starts of text: the (key, start)
\* pairs of the keys found.
KeysFound(text, starts) ==
    SelectSeq([i \in 1..Len(DETAIL_KEYS) |->
                  [key |-> DETAIL_KEYS[i],
                   start |-> KeySearchAmong(text, DETAIL_KEYS[i], starts)]],
              LAMBDA kp : kp.start # -1)

\* key_positions after the sort
KeyPositions(text) == SortByStart(KeysFound(text, LineStartsFrom(text, 0)))

\* The bullet glyph U+2022 of the bullet pattern; the module is written in
\* ASCII, where "*" stands for it.
BULLET == "*"

RECURSIVE BulletSpacing(_)
\* re.sub(r"\n<bullet>\s*", "\n<bullet> ", value)
BulletSpacing(value) ==
    LET p == Find(value, "\n", 0)
    IN  IF p = -1 THEN value
        ELSE IF p + 1 < Len(value) /\ At(value, p + 1) = BULLET
             THEN Slice(value, 0, p) \o "\n" \o BULLET \o " "
                    \o BulletSpacing(Slice(value, SpanEnd(value, p + 2, Whitespace), Len(value)))
             ELSE Slice(value, 0, p + 1) \o BulletSpacing(Slice(value, p + 1, Len(value)))

\* The body of the slicing loop: the value of the key found at start, whose
\* next boundary is next_start.
ChunkValue(text, start, next_start) ==
    LET newline         == Find(text, "\n", start)
        end_of_key_line == IF newline = -1 THEN start ELSE newline
        value           == Strip(Slice(text, end_of_key_line, next_start))
    IN  Strip(BulletSpacing(value))

\* The slicing loop over key_positions, which ends with the sentinel.
SliceChunks(text, key_positions) ==
    [k \in {key_positions[i].key : i \in 1..(Len(key_positions) - 1)} |->
        LET i == CHOOSE j \in 1..(Len(key_positions) - 1) : key_positions[j].key = k
        IN  ChunkValue(text, key_positions[i].start, key_positions[i + 1].start)]

\* From "if not key_positions" on.
ChunksAt(text, found) ==
    IF found = <<>> THEN EmptyDict
    ELSE SliceChunks(text, Append(found, [key |-> "__END__", start |-> Len(text)]))

ChunksOf(text) == ChunksAt(text, KeyPositions(text))

split_into_labeled_chunks(block_text) == ChunksOf(CompactText(block_text))

-----------------------------------------------------------------------------
(* The footer parser *)

CODE_DIGITS == 5

\* PS_CODE_LINE_RE.match(line): the offsets of the groups, or <<>> for no
\* match.  Every quantifier is greedy and what follows it always matches, so
\* the match is the greedy one.
FooterMatch(line) ==
    LET catEnd   == 8
        codeAt   == SpanEnd(line, catEnd, Whitespace)
        codeEnd  == codeAt + 3 + CODE_DIGITS
        ideasAt  == SpanEnd(line, codeEnd, Whitespace)
        ideasEnd == SpanEnd(line, ideasAt, Digits)
        themeAt  == SpanEnd(line, ideasEnd, Whitespace)
    IN  IF /\ \/ MatchesAtIgnoreCase(line, 0, "Software")
              \/ MatchesAtIgnoreCase(line, 0, "Hardware")
           /\ codeAt > catEnd
           /\ MatchesAtIgnoreCase(line, codeAt, "SIH")
           /\ codeEnd <= Len(line)
           /\ \A i \in (codeAt + 3)..(codeEnd - 1) : At(line, i) \in Digits
           /\ ideasAt > codeEnd
        THEN << [category |-> Some(Slice(line, 0, catEnd)),
                 ps_code  |-> Some(Slice(line, codeAt, codeEnd)),
                 ideas    |-> IF ideasEnd > ideasAt
                              THEN Some(Slice(line, ideasAt, ideasEnd)) ELSE None,
                 theme    |-> Some(Slice(line, themeAt, Len(line)))] >>
        ELSE <<>>

FooterDict(m) ==
    [k \in {"list_category", "ps_code", "ideas_count", "list_theme"} |->
        CASE k = "list_category" -> Strip(OrEmpty(m.category))
          [] k = "ps_code"       -> Strip(OrEmpty(m.ps_code))
          [] k = "ideas_count"   -> Strip(OrEmpty(m.ideas))
          [] k = "list_theme"    -> Strip(OrEmpty(m.theme))]

RECURSIVE FirstFooter(_)
FirstFooter(lines) ==
    IF lines = <<>> THEN EmptyDict
    ELSE LET m == FooterMatch(Strip(Head(lines)))
         IN  IF m # <<>> THEN FooterDict(m[1]) ELSE FirstFooter(Tail(lines))

parse_footer_line(block_text) == FirstFooter(SplitNewline(block_text))

-----------------------------------------------------------------------------
(* The record assembler *)

Fields ==
    {"problem_statement_id", "problem_statement_title", "description",
     "background", "expected_solution", "organization", "department",
     "category", "theme", "youtube_link", "dataset_link", "contact_info",
     "ps_code", "ideas_count", "list_category", "list_theme"}

\* The fallback taken only for an absent direct value, not for an empty one.
FillFromFooter_OnlyAbsent(direct, inferred) ==
    IF direct = None /\ Truthy(inferred) THEN inferred ELSE direct

\* "if not rec.category and rec.list_category: rec.category = rec.list_category"
FillFromFooter(direct, inferred) ==
    IF ~Truthy(direct) /\ Truthy(inferred) THEN inferred ELSE direct

\* ProblemStatement(...) followed by the two fallback assignments
AssembleRecord(lab, foot) ==
    [problem_statement_id    |-> Get(lab, "Problem Statement ID"),
     problem_statement_title |-> Get(lab, "Problem Statement Title"),
     description             |-> Get(lab, "Description"),
     background              |-> Get(lab, "Background"),
     expected_solution       |-> Get(lab, "Expected Solution"),
     organization            |-> Get(lab, "Organization"),
     department              |-> Get(lab, "Department"),
     category                |-> FillFromFooter(Get(lab, "Category"),
                                                Get(foot, "list_category")),
     theme                   |-> FillFromFooter(Get(lab, "Theme"),
                                                Get(foot, "list_theme")),
     youtube_link            |-> Get(lab, "Youtube Link"),
     dataset_link            |-> Get(lab, "Dataset Link"),
     contact_info            |-> Get(lab, "Contact info"),
     ps_code                 |-> Get(foot, "ps_code"),
     ideas_count             |-> Get(foot, "ideas_count"),
     list_category           |-> Get(foot, "list_category"),
     list_theme              |-> Get(foot, "list_theme")]

RecordOfText(text) ==
    AssembleRecord(split_into_labeled_chunks(text), parse_footer_line(text))

make_record(d, block) == RecordOfText(cleaned_text(d, block))

\* The emptiness test left out: every record is kept.
AnyField_Always(r) == TRUE

\* any(getattr(rec, f) for f in asdict(rec))
AnyField(r) == \E f \in Fields : Truthy(r[f])

-----------------------------------------------------------------------------
(* The deduplication key *)

\* (r.problem_statement_id or "").strip() or (r.ps_code or "").strip()
IdentityKey(r) ==
    LET byId == Strip(OrEmpty(r.problem_statement_id))
    IN  IF byId # "" THEN byId ELSE Strip(OrEmpty(r.ps_code))

\* f"UNK-{len(unique_records)}"
SyntheticKey(n) == "UNK-" \o ToString(n)

DedupKey(r, uniq) ==
    IF IdentityKey(r) # "" THEN IdentityKey(r) ELSE SyntheticKey(Len(uniq))

-----------------------------------------------------------------------------
(* The steps of scrape_sih_ps *)

\* blocks = extract_blocks(soup), and the fallback when it found none
LocateBlocks ==
    /\ pc = "start"
    /\ \E found \in {extract_blocks(doc)} :
           /\ located' = found
           /\ IF found # <<>>
              THEN /\ blocks' = [i \in 1..Len(found) |-> TagBlock(found[i])]
                   /\ full' = full
              ELSE \E page \in {PageText(doc)} :
                       /\ full' = page
                       /\ blocks' = FallbackBlocks(page)
    /\ records' = <<>>
    /\ bi' = 0
    /\ pc' = "assemble"
    /\ UNCHANGED <<doc, raised, raw_text, labeled, footer, rec, ri, seen_keys, unique_records>>

\* One round of "for b in blocks" in which make_record returns.
AssembleBlock ==
    /\ pc = "assemble"
    /\ bi < Len(blocks)
    /\ \E text \in {cleaned_text(doc, blocks[bi + 1])} :
       \E lab \in {split_into_labeled_chunks(text)} :
       \E foot \in {parse_footer_line(text)} :
       \E made \in {AssembleRecord(lab, foot)} :
           /\ raw_text' = text
           /\ labeled' = lab
           /\ footer' = foot
           /\ rec' = made
           /\ records' = IF AnyField(made) THEN Append(records, made) ELSE records
    /\ bi' = bi + 1
    /\ UNCHANGED <<pc, doc, located, full, blocks, raised, ri, seen_keys, unique_records>>

\* One round of "for b in blocks" in which the body raises: "except Exception: continue".
AssembleRaises ==
    /\ pc = "assemble"
    /\ bi < Len(blocks)
    /\ raised' = raised \cup {bi + 1}
    /\ bi' = bi + 1
    /\ UNCHANGED <<pc, doc, located, full, blocks, raw_text, labeled, footer, rec,
                   records, ri, seen_keys, unique_records>>

\* The assembly loop is over: seen_keys = set(), unique_records = []
StartDedup ==
    /\ pc = "assemble"
    /\ bi = Len(blocks)
    /\ seen_keys' = {}
    /\ unique_records' = <<>>
    /\ ri' = 0
    /\ pc' = "dedup"
    /\ UNCHANGED <<doc, located, full, blocks, bi, raised, raw_text, labeled, footer,
                   rec, records>>

\* One round of "for r in records".
DedupStep ==
    /\ pc = "dedup"
    /\ ri < Len(records)
    /\ LET r   == records[ri + 1]
           key == DedupKey(r, unique_records)
       IN  IF key \notin seen_keys
           THEN /\ seen_keys' = seen_keys \cup {key}
                /\ unique_records' = Append(unique_records, r)
           ELSE UNCHANGED <<seen_keys, unique_records>>
    /\ ri' = ri + 1
    /\ UNCHANGED <<pc, doc, located, full, blocks, bi, raised, raw_text, labeled,
                   footer, rec, records>>

\* return unique_records
Return ==
    /\ pc = "dedup"
    /\ ri = Len(records)
    /\ pc' = "done"
    /\ UNCHANGED <<doc, located, full, blocks, bi, raised, raw_text, labeled, footer,
                   rec, records, ri, seen_keys, unique_records>>

-----------------------------------------------------------------------------
(* Input documents *)

MaxWrap == 2

MaxNest == 5

MaxTreeStrings == 2

MaxPageStrings == 4

MaxBlockStrings == 4

MaxRecords == 3

SeqsUpTo(S, n) == UNION {[1..k -> S] : k \in 0..n}

AddNode(d, par, isTag, nm, str) ==
    [parent |-> Append(d.parent, par), tag |-> Append(d.tag, isTag),
     name |-> Append(d.name, nm), string |-> Append(d.string, str)]

RootOnly ==
    [parent |-> <<0>>, tag |-> <<TRUE>>, name |-> <<"[document]">>, string |-> <<"">>]

WrapName(i) == IF i = 1 THEN "html" ELSE IF i = 2 THEN "body" ELSE "div"

RECURSIVE Wrapped(_)
\* The root over a chain of wrap elements: html, body, div, ...
Wrapped(wrap) ==
    IF wrap = 0 THEN RootOnly
    ELSE AddNode(Wrapped(wrap - 1), wrap, TRUE, WrapName(wrap), "")

RECURSIVE AddString(_, _, _, _)
\* A text node under nest elements of its own, hung below node attach.
AddString(d, attach, nest, str) ==
    IF nest = 0 THEN AddNode(d, attach, FALSE, "", str)
    ELSE AddString(AddNode(d, attach, TRUE, "div", ""), Len(d.parent) + 1, nest - 1, str)

RECURSIVE AddStrings(_, _, _)
AddStrings(d, attach, leaves) ==
    IF leaves = <<>> THEN d
    ELSE AddStrings(AddString(d, attach, Head(leaves).nest, Head(leaves).string),
                    attach, Tail(leaves))

MakeDoc(wrap, leaves) == AddStrings(Wrapped(wrap), wrap + 1, leaves)

\* html > body > one element per string
FlatDoc(strings) ==
    MakeDoc(2, [i \in 1..Len(strings) |-> [nest |-> 1, string |-> strings[i]]])

TreePool == {MARKER, "see problem statement details:", "25001"}

TreeDocs ==
    {MakeDoc(wrap, leaves) :
        wrap \in 0..MaxWrap,
        leaves \in SeqsUpTo([nest : 0..MaxNest, string : TreePool], MaxTreeStrings)}

PagePool ==
    {MARKER, "PROBLEM statement details", "Problem Statement Details2",
     "Problem Statement ID\n25001", " \t"}

PageDocs == {FlatDoc(strings) : strings \in SeqsUpTo(PagePool, MaxPageStrings)}

LinePool ==
    {"Problem Statement ID", "25001", "Category", "theme",
     "Description\n*a\n*  b", "Software SIH25001 3 HealthTech",
     "Software SIH25001", "hardware  sih25002  12"}

\* The block of the specification's worked example.
ExampleStrings ==
    << MARKER, "Problem Statement ID", "25001", "Problem Statement Title",
       "Detect Anomalies", "Software SIH25001 3 HealthTech" >>

BlockDocs ==
    {FlatDoc(strings) : strings \in SeqsUpTo(LinePool, MaxBlockStrings)}
        \cup {FlatDoc(ExampleStrings)}

IdPool == {"", "25001", "UNK-0", "UNK-1"}

\* Records as make_record builds them: with or without an identifier, with or
\* without a footer, and with a description, so that none is empty.
RecordPool ==
    {AssembleRecord(ids @@ ("Description" :> text), foot) :
        ids  \in {EmptyDict} \cup {("Problem Statement ID" :> v) : v \in IdPool},
        text \in {"a", "b"},
        foot \in {EmptyDict, parse_footer_line("Software SIH25001 3 HealthTech")}}

-----------------------------------------------------------------------------
(* Specifications *)

NoRecord == [f \in Fields |-> None]

Idle ==
    /\ located = <<>>
    /\ full = ""
    /\ blocks = <<>>
    /\ bi = 0
    /\ raised = {}
    /\ raw_text = ""
    /\ labeled = EmptyDict
    /\ footer = EmptyDict
    /\ rec = NoRecord
    /\ records = <<>>
    /\ ri = 0
    /\ seen_keys = {}
    /\ unique_records = <<>>

\* scrape_sih_ps, from the parsed page to the value returned
Init ==
    /\ pc = "start"
    /\ doc \in PageDocs
    /\ Idle

Next ==
    \/ LocateBlocks
    \/ AssembleBlock
    \/ AssembleRaises
    \/ StartDedup
    \/ DedupStep
    \/ Return

Spec == Init /\ [][Next]_vars

\* extract_blocks and the fallback, on trees of every shape
InitLocate ==
    /\ pc = "start"
    /\ doc \in TreeDocs
    /\ Idle

NextLocate == LocateBlocks

SpecLocate == InitLocate /\ [][NextLocate]_vars

\* make_record on one block, the root of its document
InitRecord ==
    /\ pc = "assemble"
    /\ doc \in BlockDocs
    /\ located = <<1>>
    /\ full = ""
    /\ blocks = <<TagBlock(1)>>
    /\ bi = 0
    /\ raised = {}
    /\ raw_text = ""
    /\ labeled = EmptyDict
    /\ footer = EmptyDict
    /\ rec = NoRecord
    /\ records = <<>>
    /\ ri = 0
    /\ seen_keys = {}
    /\ unique_records = <<>>

NextRecord == AssembleBlock

SpecRecord == InitRecord /\ [][NextRecord]_vars

\* the deduplication loop on every sequence of records
InitDedup ==
    /\ pc = "dedup"
    /\ doc = RootOnly
    /\ located = <<>>
    /\ full = ""
    /\ blocks = <<>>
    /\ bi = 0
    /\ raised = {}
    /\ raw_text = ""
    /\ labeled = EmptyDict
    /\ footer = EmptyDict
    /\ rec = NoRecord
    /\ records \in SeqsUpTo(RecordPool, MaxRecords)
    /\ ri = 0
    /\ seen_keys = {}
    /\ unique_records = <<>>

NextDedup == DedupStep \/ Return

SpecDedup == InitDedup /\ [][NextDedup]_vars

-----------------------------------------------------------------------------
(* Notions the properties below are stated with *)

\* A record has a field that is neither absent nor empty.
HasContent(r) == \E f \in DOMAIN r : r[f] # None /\ r[f] # Some("")

EqualIgnoringCase(a, b) == Len(a) = Len(b) /\ MatchesAtIgnoreCase(a, 0, b)

\* The non-empty trimmed lines of a text.
TrimmedLines(t) ==
    SelectSeq([i \in 1..Len(SplitNewline(t)) |-> Strip(SplitNewline(t)[i])],
              LAMBDA l : l # "")

KeySet == {DETAIL_KEYS[i] : i \in 1..Len(DETAIL_KEYS)}

IsLabelLine(line, k) == EqualIgnoringCase(line, k)

\* make_record has run on the one block of SpecRecord.
Assembled == pc = "assemble" /\ bi = 1 /\ raised = {}

-----------------------------------------------------------------------------
(* C1 *)

ExampleText ==
    "Problem Statement Details\nProblem Statement ID\n25001\nProblem Statement Title\nDetect Anomalies\nSoftware SIH25001 3 HealthTech"

\* C1: for the block whose normalized text is the six lines of the worked
\* example, the record has identifier "25001", title exactly "Detect
\* Anomalies", short code "SIH25001", idea count "3", category "Software"
\* and theme "HealthTech".
C1_ExampleRecord ==
    (Assembled /\ raw_text = ExampleText) =>
        /\ rec.problem_statement_id = Some("25001")
        /\ rec.problem_statement_title = Some("Detect Anomalies")
        /\ rec.ps_code = Some("SIH25001")
        /\ rec.ideas_count = Some("3")
        /\ rec.category = Some("Software")
        /\ rec.theme = Some("HealthTech")

-----------------------------------------------------------------------------
(* C2, C3 *)

\* The identity of a record: its stripped identifier if that is not empty,
\* else its stripped short code; "" when it has neither.
Identity(r) ==
    IF r.problem_statement_id # None /\ Strip(r.problem_statement_id[1]) # ""
    THEN Strip(r.problem_statement_id[1])
    ELSE IF r.ps_code # None THEN Strip(r.ps_code[1]) ELSE ""

RECURSIVE FirstOfEachIdentity(_, _)
FirstOfEachIdentity(rs, seen) ==
    IF rs = <<>> THEN <<>>
    ELSE IF Identity(Head(rs)) \in seen THEN FirstOfEachIdentity(Tail(rs), seen)
    ELSE <<Head(rs)>> \o FirstOfEachIdentity(Tail(rs), seen \cup {Identity(Head(rs))})

RECURSIVE IsSubsequence(_, _)
IsSubsequence(a, b) ==
    IF a = <<>> THEN TRUE
    ELSE IF b = <<>> THEN FALSE
    ELSE IF Head(a) = Head(b) THEN IsSubsequence(Tail(a), Tail(b))
    ELSE IsSubsequence(a, Tail(b))

Identified(rs) == SelectSeq(rs, LAMBDA r : Identity(r) # "")

Unidentified(rs) == SelectSeq(rs, LAMBDA r : Identity(r) = "")

\* C2: among the records that have an identity, the result holds exactly the
\* first record of each distinct identity, no two of its records share one,
\* and the result is a subsequence of the input.
C2_FirstOfEachIdentity ==
    pc = "done" =>
        /\ Identified(unique_records) = FirstOfEachIdentity(Identified(records), {})
        /\ \A i, j \in 1..Len(unique_records) :
              (i # j /\ Identity(unique_records[i]) # "")
                  => Identity(unique_records[i]) # Identity(unique_records[j])
        /\ IsSubsequence(unique_records, records)

\* C3: every record with neither an identifier nor a short code is in the
\* result, whatever the identifiers and short codes of the other records.
C3_UnidentifiedKept ==
    pc = "done" => Unidentified(unique_records) = Unidentified(records)

-----------------------------------------------------------------------------
(* C4 *)

\* The line at which label k stands first, or 0.
FirstLineOf(lines, k) ==
    IF \E i \in 1..Len(lines) : IsLabelLine(lines[i], k)
    THEN CHOOSE i \in 1..Len(lines) :
            /\ IsLabelLine(lines[i], k)
            /\ \A j \in 1..(i - 1) : ~IsLabelLine(lines[j], k)
    ELSE 0

\* On the lines of a text: the found labels are the labels that are a whole
\* line, and a label whose line is immediately followed by the line of
\* another label has the empty string as its value.
KeysAndEmptyValues(lines, lab) ==
    /\ DOMAIN lab = {k \in KeySet : FirstLineOf(lines, k) # 0}
    /\ \A k, k2 \in KeySet :
          ( /\ k # k2
            /\ FirstLineOf(lines, k) # 0
            /\ FirstLineOf(lines, k) < Len(lines)
            /\ IsLabelLine(lines[FirstLineOf(lines, k) + 1], k2) )
              => (k \in DOMAIN lab /\ lab[k] = "")

\* C4: the keys of the mapping are exactly the labels that are a whole line
\* of the text (ignoring case), and a label whose line is immediately
\* followed by the line of another label has the empty string as its value.
C4_KeysAndEmptyValues ==
    Assembled => KeysAndEmptyValues(TrimmedLines(raw_text), labeled)

-----------------------------------------------------------------------------
(* C5 *)

\* The line starts with Software or Hardware in any case, one or more
\* spaces, and SIH with five digits.
StartsAsFooter(line) ==
    /\ \/ MatchesAtIgnoreCase(line, 0, "Software")
       \/ MatchesAtIgnoreCase(line, 0, "Hardware")
    /\ \E p \in 9..Len(line) :
          /\ \A i \in 8..(p - 1) : At(line, i) = " "
          /\ MatchesAtIgnoreCase(line, p, "SIH")
          /\ p + 8 <= Len(line)
          /\ \A i \in (p + 3)..(p + 7) : At(line, i) \in Digits

\* C5: every line that starts as a footer line is matched, whatever follows
\* the code; a line holding only the category and the code is matched with
\* an empty idea count and an empty theme.
C5_FooterShapeMatched ==
    Assembled =>
        /\ (\E i \in 1..Len(TrimmedLines(raw_text)) :
                StartsAsFooter(TrimmedLines(raw_text)[i]))
              => footer # EmptyDict
        /\ raw_text = "Software SIH25001"
              => footer = [list_category |-> "Software", ps_code |-> "SIH25001",
                           ideas_count |-> "", list_theme |-> ""]

-----------------------------------------------------------------------------
(* C6 *)

\* C6 as stated: the record's category is the mapping's Category value
\* whenever Category is a key (an empty value included); it is the footer
\* category only when Category is no key and the footer matched.  Likewise
\* for the theme.
C6_DirectValueWins ==
    Assembled =>
        /\ IF "Category" \in DOMAIN labeled
           THEN rec.category = Some(labeled["Category"])
           ELSE \/ rec.category = None
                \/ footer # EmptyDict /\ rec.category = Some(footer["list_category"])
        /\ IF "Theme" \in DOMAIN labeled
           THEN rec.theme = Some(labeled["Theme"])
           ELSE \/ rec.theme = None
                \/ footer # EmptyDict /\ rec.theme = Some(footer["list_theme"])

\* What the record holds for a direct field and its footer counterpart: the
\* direct value when it is present and not empty; else the footer value when
\* that is present and not empty; else whatever the mapping gave.
FilledFrom(lab, key, foot, footKey) ==
    IF key \in DOMAIN lab /\ lab[key] # "" THEN Some(lab[key])
    ELSE IF footKey \in DOMAIN foot /\ foot[footKey] # "" THEN Some(foot[footKey])
    ELSE IF key \in DOMAIN lab THEN Some("")
    ELSE None

\* C6 (amended): the record's category is the mapping's Category value when
\* that value is present and not empty; when it is absent or empty and the
\* footer matched with a non-empty category, it is the footer category;
\* otherwise it is what the mapping gave (empty or absent).  Likewise for
\* the theme.
C6_FooterFillsMissingOrEmpty ==
    Assembled =>
        /\ rec.category = FilledFrom(labeled, "Category", footer, "list_category")
        /\ rec.theme = FilledFrom(labeled, "Theme", footer, "list_theme")

\* An empty Category value was replaced by the footer's category, and a
\* non-empty Theme value was kept although the footer carries a theme.
C6_Witness ==
    /\ Assembled
    /\ "Category" \in DOMAIN labeled /\ labeled["Category"] = ""
    /\ footer # EmptyDict
    /\ rec.category = Some("Software")
    /\ "Theme" \in DOMAIN labeled /\ labeled["Theme"] # ""
    /\ footer["list_theme"] # "" /\ footer["list_theme"] # labeled["Theme"]

-----------------------------------------------------------------------------
(* C7 *)

\* What the assembly loop keeps of a block, NoRecord standing for nothing.
KeptOf(d, bs, i, failed) ==
    IF i \in failed THEN NoRecord ELSE make_record(d, bs[i])

\* The records of the first n blocks that neither raised nor came out empty,
\* in the order of the blocks.
KeptUpTo(d, bs, n, failed) ==
    SelectSeq([i \in 1..n |-> KeptOf(d, bs, i, failed)], HasContent)

\* C7: every record held or returned has a non-empty field; a block whose
\* record is empty and a block whose assembly raises leave no record, and
\* the blocks after them are still processed, in order.
C7_EmptyAndFailedBlocksSkipped ==
    /\ \A i \in 1..Len(records) : HasContent(records[i])
    /\ \A i \in 1..Len(unique_records) : HasContent(unique_records[i])
    /\ pc # "start" => records = KeptUpTo(doc, blocks, bi, raised)
    /\ pc \in {"dedup", "done"} => bi = Len(blocks)

\* A run that dropped an empty record, skipped a block that raised, and
\* still returned the record of a later block.
C7_Witness ==
    /\ pc = "done"
    /\ raised # {}
    /\ unique_records # <<>>
    /\ \E i, j, k \in 1..Len(blocks) :
          /\ i < k /\ j < k
          /\ i \notin raised /\ ~HasContent(make_record(doc, blocks[i]))
          /\ j \in raised
          /\ k \notin raised /\ HasContent(make_record(doc, blocks[k]))

-----------------------------------------------------------------------------
(* C8 *)

\* The least of the offsets of a non-empty set.
Least(S) == CHOOSE p \in S : \A q \in S : p <= q

\* The text strictly between the end of the line of the label found at start
\* and the start of the line of the next label found (the end of the text for
\* the last one), trimmed, with the bullet spacing normalised.
ValueBetween(text, start, starts) ==
    LET lineEnd == IF Find(text, "\n", start) = -1 THEN Len(text)
                   ELSE Find(text, "\n", start)
        next    == Least({p \in starts : p > start} \cup {Len(text)})
    IN  Strip(BulletSpacing(Strip(Slice(text, lineEnd, next))))

AllValuesBetween(text, lab) ==
    \A k \in DOMAIN lab :
        lab[k] = ValueBetween(text, KeySearch(text, k),
                              {KeySearch(text, k2) : k2 \in DOMAIN lab})

\* C8: the value of every label found, the last one and one whose line ends
\* the text included, is the trimmed text strictly between the end of its
\* own line and the start of the line of the next label found.
C8_ValueBetweenLines ==
    Assembled => AllValuesBetween(CompactText(raw_text), labeled)

-----------------------------------------------------------------------------
(* C9 *)

RECURSIVE Ascend(_, _, _)
\* The node levels parents above node n, or the root when it is nearer.
Ascend(d, n, levels) ==
    IF levels = 0 \/ d.parent[n] = 0 THEN n
    ELSE Ascend(d, d.parent[n], levels - 1)

ClimbedContainers(d, found) ==
    Uniq([i \in 1..Len(found) |-> Ascend(d, found[i], CLIMB_LEVELS)], {})

\* C9: extract_blocks returns, once each and in the order of the first
\* match, the elements five parent levels above the matching text nodes
\* (the root when it is nearer); a document with a matching text node yields
\* at least one block.
C9_ClimbedContainers ==
    pc = "assemble" =>
        /\ located = ClimbedContainers(doc, find_all_text(doc))
        /\ find_all_text(doc) # <<>> => located # <<>>

-----------------------------------------------------------------------------
(* C10 *)

\* The offsets of the page text where the split pattern matches.
MarkerOffsets(page) == {p \in 0..(Len(page) - Len(MARKER)) : MarkerAt(page, p)}

\* The i-th segment after the first: from the end of the i-th match to the
\* start of the next one, or to the end of the text.
SegmentAfter(page, offsets, i) ==
    LET from == CHOOSE p \in offsets : Cardinality({q \in offsets : q < p}) = i - 1
    IN  Slice(page, from + Len(MARKER),
              Least({q \in offsets : q > from} \cup {Len(page)}))

BlocksOfSegments(d, bs, page, offsets) ==
    /\ Len(bs) = Cardinality(offsets)
    /\ \A i \in 1..Len(bs) :
          /\ bs[i].kind = "Dummy"
          /\ get_text(d, bs[i]) = MARKER \o "\n" \o SegmentAfter(page, offsets, i)

\* C10: when extract_blocks finds nothing, the blocks are one synthetic block
\* per segment of the flat page text after the first, in order, each
\* rendering to the marker, a newline and the segment; when the marker does
\* not occur in the page text, there is no block and no record.
C10_FallbackBlocks ==
    (pc # "start" /\ located = <<>>) =>
        /\ BlocksOfSegments(doc, blocks, full, MarkerOffsets(full))
        /\ ~MarkerSearch(full) =>
              (blocks = <<>> /\ raised = {} /\ records = <<>> /\ unique_records = <<>>)

\* The fallback produced two different blocks and the run went on to return.
C10_Witness ==
    /\ pc = "done"
    /\ located = <<>>
    /\ Len(blocks) = 2
    /\ blocks[1].kind = "Dummy" /\ blocks[2].kind = "Dummy"
    /\ blocks[1] # blocks[2]
    /\ Len(full) > 2 * Len(MARKER) + 2

====
